---- MODULE Spec2Model ----
(***************************************************************************)
(* Model of MrBoxPeripheralBoardPlugin (src/__init__.py): the MicroDrop     *)
(* plugin that drives the MR-Box peripheral board (magnet z-stage, pump,    *)
(* PMT/ADC, LEDs) over a serial proxy.                                      *)
(*                                                                         *)
(* The plugin is single threaded: the host dispatches one signal at a time  *)
(* and the handler runs to completion.  Each handler is one action.  Inside *)
(* an action the handler's statements are evaluated in program order on a   *)
(* record `m` (the plugin fields, the board's hardware state and what the   *)
(* call did so far); a board operation that raises leaves the rest of the   *)
(* enclosing block unexecuted, exactly as a Python exception does.          *)
(***************************************************************************)
EXTENDS Integers, Sequences, FiniteSets, TLC

\* ---------------------------------------------------------------- bounds
\* Largest value an ADC self-calibration register read returns in the model.
MaxReg == 1
\* The scheduled workbook writes the host's idle queue holds at most.
MaxQueue == 1

\* ------------------------------------------------------ program constants
retry_count == 2
PumpAutoFrequency == 8000
PumpTimeout == 5
PumpSamples == 10
PmtReferenceReads == 20
ShutterPin == 9
AdcStartCommand == 136
DefaultDuration == 10
DefaultFrequency == 1000
\* The default of Pump_duration_(s), 0.1 s, in tenths of a second.
DefaultPumpDuration == 1
FromConfig == -2

\* Python's None for the integer-valued fields.
None == -1

VARIABLES
    board,
    user_warned,
    initialized,
    dropbot_remote,
    max_capacitance,
    adc_gain_calibration,
    adc_offset_calibration,
    led1,
    led2,
    zstage,
    pump,
    session_bg,
    session_bg_tried,
    episode,
    idle_queue,
    call

vars == << board, user_warned, initialized, dropbot_remote, max_capacitance, adc_gain_calibration, adc_offset_calibration, led1, led2, zstage, pump, session_bg, session_bg_tried, episode, idle_queue, call >>

\* ------------------------------------------------------------ value sets
BoardStates == {"None", "open", "closed"}
ZPositions == {"home", "low", "up"}
RegVals == 0..MaxReg
ExcKinds == {"link", "other"}
NoLabel == "<None>"
Labels == {NoLabel, "", "background", "Background", "sample"}
Durations == {0, DefaultDuration}
PumpFrequencies == {1, DefaultFrequency}
\* Pump durations, in tenths of a second.
PumpDurations == {DefaultPumpDuration, 5}
\* What the pump-fill loop sees: the capacitance gained and the seconds
\* spent per iteration.
FillCases == [ rate : 0..1, dt : 1..2 ]
NoBackground == << None, None >>
FreshRegs == RegVals \X RegVals
\* Version identifiers as major.minor.micro; << >> is a string that
\* Version.fromstring cannot parse.
HostVersion == << 1, 0, 0 >>
RemoteVersions == { << 1, 0, 0 >>, << 1, 0, 1 >>, << 1, 1, 0 >>, << 2, 0, 0 >>, << >> }
Responses == {"yes", "no"}

\* str.lower() on the step labels of the model.
Lower(s) == IF s = "Background" THEN "background" ELSE s

\* Python truthiness of an integer-or-None field: None and 0 are false.
Truthy(x) == x # None /\ x # 0

Cmd(name, arg) == << name, arg >>

\* The commands of `cmds` whose name is `name`, in order.
Named(cmds, name) == SelectSeq(cmds, LAMBDA c : c[1] = name)

\* The position of the first command named `name` in `cmds`, or 0.
FirstAt(cmds, name) == IF \E i \in 1..Len(cmds) : cmds[i][1] = name THEN CHOOSE i \in 1..Len(cmds) : cmds[i][1] = name /\ \A j \in 1..(i - 1) : cmds[j][1] # name ELSE 0

Count(logs, tag) == Len(SelectSeq(logs, LAMBDA l : l = tag))

\* The step options of the plugin (StepFields) together with the app value
\* 'Use auto pump' and the label the step label plugin gives the step.
AllStepOptions == [ Magnet : BOOLEAN, Pump : BOOLEAN, auto : BOOLEAN, Measure_PMT : BOOLEAN, frequency : PumpFrequencies, pump_duration : PumpDurations, duration : Durations, label : Labels ]

\* The fields a step does not use keep their defaults: the pump fields are
\* used by a manual pump step and the measurement duration by a PMT step.
StepOptions ==
    { o \in AllStepOptions :
        /\ (o.Pump /\ ~o.auto) \/ (o.frequency = DefaultFrequency /\ o.pump_duration = DefaultPumpDuration)
        /\ o.Measure_PMT \/ o.duration = DefaultDuration }

\* The steps whose numeric fields are left at their defaults.
DefaultOptions ==
    { o \in StepOptions : o.frequency = DefaultFrequency /\ o.pump_duration = DefaultPumpDuration /\ o.duration = DefaultDuration }

\* What on_step_swapped and on_step_options_changed read of the host and of
\* their arguments: whether the change is for this plugin (plugin ==
\* self.plugin_name), app.realtime_mode, app.running, and whether the step
\* is the current step of the protocol.
Gates == [ plugin : BOOLEAN, realtime_mode : BOOLEAN, running : BOOLEAN, current : BOOLEAN ]

\* The gate of a call that reads none of them.
NoGate == [ plugin |-> FALSE, realtime_mode |-> FALSE, running |-> FALSE, current |-> FALSE ]

\* The options of a call that applies none.
NoOpts == [ Magnet |-> FALSE, Pump |-> FALSE, auto |-> FALSE, Measure_PMT |-> FALSE, frequency |-> DefaultFrequency, pump_duration |-> DefaultPumpDuration, duration |-> DefaultDuration, label |-> NoLabel ]

\* ------------------------------------------------- the evaluation record
\* The record a handler is evaluated on: the variables, plus what the call
\* has done so far.  exc is the exception in flight ("none" when there is
\* none); n counts the operations of the current block, so that a fault can
\* be injected at the n-th one; faults is the set of phases a fault was
\* injected in; fills and remotes keep what the feedback loop and the
\* connection attempts of the call read; gain, overrange and averages are
\* the result of the gain search and the averages it read; data is whether
\* the measurement dialog returned a series; applies counts the calls of
\* apply_step_options and gate is what the handler read of the host.
NoPre ==
    [ board |-> "None", user_warned |-> FALSE, max_capacitance |-> None,
      adc_gain_calibration |-> None, adc_offset_calibration |-> None,
      led1 |-> FALSE, led2 |-> FALSE, zstage |-> "home", pump |-> FALSE,
      session_bg |-> NoBackground, session_bg_tried |-> FALSE,
      episode |-> [applies |-> 0, warnings |-> 0] ]

Blank(name) ==
    [ board |-> "None", user_warned |-> FALSE, initialized |-> FALSE,
      dropbot_remote |-> FALSE, max_capacitance |-> None,
      adc_gain_calibration |-> None, adc_offset_calibration |-> None,
      led1 |-> FALSE, led2 |-> FALSE, zstage |-> "home", pump |-> FALSE,
      session_bg |-> NoBackground, session_bg_tried |-> FALSE,
      episode |-> [applies |-> 0, warnings |-> 0],
      scgc |-> None, scoc |-> None, led1_on |-> FALSE, led2_on |-> FALSE,
      name |-> name, cmds |-> << >>, logs |-> << >>, exc |-> "none", n |-> 0,
      phase |-> "pre", faults |-> {}, raised |-> "none", step_logs |-> 0,
      records |-> 0, signals |-> 0, attempts |-> 0, link_failures |-> 0,
      raised_in |-> "none", open_exc |-> "none", fills |-> << >>, remotes |-> << >>,
      gain |-> None, overrange |-> FALSE, averages |-> << >>, data |-> FALSE,
      idle_queue |-> 0, applies |-> 0, gate |-> NoGate, opts |-> NoOpts, pre |-> NoPre ]

\* The state a call starts from.
Snapshot ==
    [ board |-> board, user_warned |-> user_warned, max_capacitance |-> max_capacitance,
      adc_gain_calibration |-> adc_gain_calibration,
      adc_offset_calibration |-> adc_offset_calibration,
      led1 |-> led1, led2 |-> led2, zstage |-> zstage, pump |-> pump,
      session_bg |-> session_bg, session_bg_tried |-> session_bg_tried,
      episode |-> episode ]

Start(name) ==
    [ Blank(name) EXCEPT !.board = board, !.user_warned = user_warned, !.initialized = initialized,
      !.dropbot_remote = dropbot_remote, !.max_capacitance = max_capacitance,
      !.adc_gain_calibration = adc_gain_calibration,
      !.adc_offset_calibration = adc_offset_calibration,
      !.led1 = led1, !.led2 = led2, !.zstage = zstage, !.pump = pump,
      !.session_bg = session_bg, !.session_bg_tried = session_bg_tried,
      !.episode = episode, !.idle_queue = idle_queue, !.pre = Snapshot ]

NoFault == [at |-> 0, kind |-> "link"]
Fault(i, k) == [at |-> i, kind |-> k]

Raised(m) == m.exc # "none"

EnterPhase(m, p) == IF Raised(m) THEN m ELSE [m EXCEPT !.phase = p, !.n = 0]

\* raise: the exception `kind` is in flight.
Raise(m, kind) == IF Raised(m) THEN m ELSE [m EXCEPT !.exc = kind]

\* One operation on the board proxy (an RPC over the serial link).  It is
\* skipped when an exception is in flight; it raises when the handle is
\* closed or when the fault is injected at it; otherwise the command is
\* issued and `post` is the record after its effect.
Do(m, f, cmd, post) ==
    IF Raised(m) THEN m
    ELSE IF m.board = "closed" THEN [m EXCEPT !.n = @ + 1, !.exc = "link"]
    ELSE IF m.n + 1 = f.at THEN [m EXCEPT !.n = @ + 1, !.exc = f.kind, !.faults = @ \cup {m.phase}]
    ELSE [post EXCEPT !.n = m.n + 1, !.cmds = Append(m.cmds, cmd)]

\* An operation that is not a board RPC (the DropBot proxy, a file, a
\* dialog): it can fail by injection only.
DoExt(m, f, cmd, post) ==
    IF Raised(m) THEN m
    ELSE IF m.n + 1 = f.at THEN [m EXCEPT !.n = @ + 1, !.exc = f.kind, !.faults = @ \cup {m.phase}]
    ELSE [post EXCEPT !.n = m.n + 1, !.cmds = Append(m.cmds, cmd)]

Log(m, tag) == IF Raised(m) THEN m ELSE [m EXCEPT !.logs = Append(@, tag)]

\* MAX11210_begin: starts the ADC and runs its self-calibration, which
\* leaves freshly computed values in the SCGC and SCOC registers.
MAX11210_begin(m, f, fresh) ==
    Do(m, f, Cmd("MAX11210_begin", 0), [m EXCEPT !.scgc = fresh[1], !.scoc = fresh[2]])

\* update_leds: one brightness write per LED.
update_leds(m, f) ==
    LET a == Do(m, f, Cmd("led1.brightness", 0), m)
    IN  Do(a, f, Cmd("led2.brightness", 0), a)

\* A step that is recorded in `cmds` for its place in the order and that
\* cannot fail (time.sleep).
Note(m, cmd) == IF Raised(m) THEN m ELSE [m EXCEPT !.cmds = Append(@, cmd)]

\* ------------------------------------------------------ reset_board_state
\* A reset that gives up when the z-stage did not reach the homed position.
ResetCommandsStopUnhomed(a, f, homed, fresh) ==
    LET b == Do(a, f, Cmd("zstage.home", 0), [a EXCEPT !.zstage = IF homed THEN "home" ELSE @])
        c == Do(b, f, Cmd("zstage.is_down", 0), b)
        d == IF c.zstage # "home" THEN Raise(Log(c, "warning:homing"), "other") ELSE c
        e == Do(d, f, Cmd("pump_deactivate", 0), [d EXCEPT !.pump = FALSE])
        g == Do(e, f, Cmd("pump_frequency_set", 0), e)
        h == Do(g, f, Cmd("pin_mode", ShutterPin), g)
        i == Do(h, f, Cmd("pmt_close_shutter", 0), h)
        j == Do(i, f, Cmd("pmt_set_pot", 0), i)
        k == MAX11210_begin(j, f, fresh)
        l == update_leds(k, f)
        o == Do(l, f, Cmd("led1.on", 1), [l EXCEPT !.led1 = TRUE])
    IN  Do(o, f, Cmd("led2.on", 1), [o EXCEPT !.led2 = TRUE])

\* The commands of reset_board_state, in the order of the source.
\* homed: whether the z-stage reports the homed position after home().
ResetCommands(a, f, homed, fresh) ==
    LET b == Do(a, f, Cmd("zstage.home", 0), [a EXCEPT !.zstage = IF homed THEN "home" ELSE @])
        c == Do(b, f, Cmd("zstage.is_down", 0), b)
        d == IF c.zstage # "home" THEN Log(c, "warning:homing") ELSE c
        e == Do(d, f, Cmd("pump_deactivate", 0), [d EXCEPT !.pump = FALSE])
        g == Do(e, f, Cmd("pump_frequency_set", 0), e)
        h == Do(g, f, Cmd("pin_mode", ShutterPin), g)
        i == Do(h, f, Cmd("pmt_close_shutter", 0), h)
        j == Do(i, f, Cmd("pmt_set_pot", 0), i)
        k == MAX11210_begin(j, f, fresh)
        l == update_leds(k, f)
        o == Do(l, f, Cmd("led1.on", 1), [l EXCEPT !.led1 = TRUE])
    IN  Do(o, f, Cmd("led2.on", 1), [o EXCEPT !.led2 = TRUE])

\* The user-warned latch is cleared first, handle or no handle; a new
\* disconnected episode starts with it.
ClearUserWarned(m) == [m EXCEPT !.user_warned = FALSE, !.episode = [applies |-> 0, warnings |-> 0]]

\* A reset that tests for the handle before it clears the latch.
reset_board_state_returns_first(m, f, homed, fresh) ==
    IF Raised(m) \/ m.board = "None" THEN m
    ELSE ResetCommands(ClearUserWarned(m), f, homed, fresh)

reset_board_state(m, f, homed, fresh) ==
    IF Raised(m) THEN m
    ELSE LET a == ClearUserWarned(m)
         IN  IF a.board = "None" THEN a ELSE ResetCommands(a, f, homed, fresh)

\* ----------------------------------------------------- apply_step_options
\* The environment read: it has its own try block, so a failure (the DropBot
\* proxy is None, or the read raises) is logged at debug level and dropped.
ApplyEnvironment(m, f) ==
    LET a == IF m.dropbot_remote THEN DoExt(m, f, Cmd("get_environment_state", 0), m) ELSE Raise([m EXCEPT !.n = @ + 1], "other")
    IN  [a EXCEPT !.exc = "none"]

\* Save state of LEDs: two reads of the board, outside the try block.
ApplySaveLeds(m, f) ==
    LET a == Do(m, f, Cmd("led1.on?", 0), [m EXCEPT !.led1_on = m.led1])
    IN  Do(a, f, Cmd("led2.on?", 0), [a EXCEPT !.led2_on = a.led2])

ApplyPre(m, f) == ApplySaveLeds(ApplyEnvironment(m, f), f)

\* A magnet branch that homes the z-stage without the low-position move.
MagnetBranchHomesDirectly(m, f, opts, homed) ==
    IF opts.Magnet THEN Do(m, f, Cmd("zstage.up", 0), [m EXCEPT !.zstage = "up"])
    ELSE LET a == Do(m, f, Cmd("zstage.is_down", 0), m)
         IN  IF Raised(a) \/ a.zstage = "home" THEN a
             ELSE Do(a, f, Cmd("zstage.home", 0), [a EXCEPT !.zstage = IF homed THEN "home" ELSE @])

\* A magnet branch that sends no request when the z-stage is already up.
MagnetBranchSkipsWhenUp(m, f, opts, homed) ==
    IF opts.Magnet
    THEN IF m.zstage = "up" THEN m ELSE Do(m, f, Cmd("zstage.up", 0), [m EXCEPT !.zstage = "up"])
    ELSE LET a == Do(m, f, Cmd("zstage.is_down", 0), m)
         IN  IF Raised(a) \/ a.zstage = "home" THEN a
             ELSE LET b == Do(a, f, Cmd("zstage.move_to", 1), [a EXCEPT !.zstage = "low"])
                  IN  Do(b, f, Cmd("zstage.home", 0), [b EXCEPT !.zstage = IF homed THEN "home" ELSE @])

MagnetBranch(m, f, opts, homed) ==
    IF opts.Magnet THEN Do(m, f, Cmd("zstage.up", 0), [m EXCEPT !.zstage = "up"])
    ELSE LET a == Do(m, f, Cmd("zstage.is_down", 0), m)
         IN  IF Raised(a) \/ a.zstage = "home" THEN a
             ELSE LET b == Do(a, f, Cmd("zstage.move_to", 1), [a EXCEPT !.zstage = "low"])
                  IN  Do(b, f, Cmd("zstage.home", 0), [b EXCEPT !.zstage = IF homed THEN "home" ELSE @])

\* One pass of the feedback loop: the pump runs while the capacitance is
\* read PumpSamples times.  fills keeps, for each activation, the average
\* and the elapsed time the loop condition was tested with.
FillPass(m, f, cap, pump_time) ==
    LET a == Do(m, f, Cmd("pump_activate", 0), [m EXCEPT !.pump = TRUE, !.fills = Append(@, << cap, pump_time >>)])
        b == DoExt(a, f, Cmd("measure_capacitance", PumpSamples), a)
    IN  Do(b, f, Cmd("pump_deactivate", 0), [b EXCEPT !.pump = FALSE])

\* A feedback loop that still starts a pass when the timeout has just been
\* reached.
RECURSIVE FillLoopLateTimeout(_, _, _, _, _)
FillLoopLateTimeout(m, f, cap, pump_time, fill) ==
    IF Raised(m) \/ ~(cap < m.max_capacitance /\ pump_time <= PumpTimeout) THEN m
    ELSE FillLoopLateTimeout(FillPass(m, f, cap, pump_time), f, cap + fill.rate, pump_time + fill.dt, fill)

\* The feedback loop: while cap < max_cp and pump_time < 5.  The model's
\* capacitances are integers, which round(x, 12) leaves as they are.
RECURSIVE FillLoop(_, _, _, _, _)
FillLoop(m, f, cap, pump_time, fill) ==
    IF Raised(m) \/ ~(cap < m.max_capacitance /\ pump_time < PumpTimeout) THEN m
    ELSE FillLoop(FillPass(m, f, cap, pump_time), f, cap + fill.rate, pump_time + fill.dt, fill)

AutoPump(m, f, fill) ==
    LET a == Do(m, f, Cmd("pump_frequency_set", PumpAutoFrequency), m)
        b == IF a.dropbot_remote THEN DoExt(a, f, Cmd("number_of_channels", 0), a) ELSE Raise(a, "other")
        c == DoExt(b, f, Cmd("state_of_channels", 24), b)
        d == IF c.max_capacitance = None THEN Raise(c, "other") ELSE c
        e == FillLoop(d, f, 0, 0, fill)
    IN  Log(e, "info:capacitance")

\* A manual pump that is switched on before its frequency is set.
ManualPumpActivatesFirst(m, f, opts) ==
    LET a == Do(m, f, Cmd("pump_activate", 0), [m EXCEPT !.pump = TRUE])
        b == Do(a, f, Cmd("pump_frequency_set", opts.frequency), a)
        c == Note(b, Cmd("sleep", opts.pump_duration))
    IN  Do(c, f, Cmd("pump_deactivate", 0), [c EXCEPT !.pump = FALSE])

ManualPump(m, f, opts) ==
    LET a == Do(m, f, Cmd("pump_frequency_set", opts.frequency), m)
        b == Do(a, f, Cmd("pump_activate", 0), [a EXCEPT !.pump = TRUE])
        c == Note(b, Cmd("sleep", opts.pump_duration))
    IN  Do(c, f, Cmd("pump_deactivate", 0), [c EXCEPT !.pump = FALSE])

\* A pump branch with a try block of its own, which drops its exception.
PumpBranchOwnTry(m, f, opts, fill) ==
    LET r == IF ~opts.Pump THEN m ELSE IF opts.auto THEN AutoPump(m, f, fill) ELSE ManualPump(m, f, opts)
    IN  [r EXCEPT !.exc = "none"]

PumpBranch(m, f, opts, fill) ==
    IF ~opts.Pump THEN m
    ELSE IF opts.auto THEN AutoPump(m, f, fill)
    ELSE ManualPump(m, f, opts)

\* The background step: set the PMT control voltage and store the two
\* self-calibration registers.  Each field is assigned when its read returns.
PmtBackground(m, f) ==
    LET a == Do([m EXCEPT !.session_bg_tried = TRUE], f, Cmd("config", 0), [m EXCEPT !.session_bg_tried = TRUE])
        b == Do(a, f, Cmd("pmt_set_pot", FromConfig), a)
        c == Do(b, f, Cmd("MAX11210_getSelfCalGain", 0), [b EXCEPT !.adc_gain_calibration = b.scgc])
    IN  Do(c, f, Cmd("MAX11210_getSelfCalOffset", 0), [c EXCEPT !.adc_offset_calibration = c.scoc, !.session_bg = << c.adc_gain_calibration, c.scoc >>])

\* Any other step: `if not self.adc_gain_calibration` warns, else the stored
\* values are written back.  Writing a stored offset of None raises.
PmtReuse(m, f) ==
    IF ~Truthy(m.adc_gain_calibration) THEN Log(m, "warning:missing_calibration")
    ELSE LET a == Do(m, f, Cmd("MAX11210_setSelfCalGain", m.adc_gain_calibration), [m EXCEPT !.scgc = m.adc_gain_calibration])
         IN  IF a.adc_offset_calibration = None THEN Raise(a, "other")
             ELSE Do(a, f, Cmd("MAX11210_setSelfCalOffset", a.adc_offset_calibration), [a EXCEPT !.scoc = a.adc_offset_calibration])

PmtCalibration(m, f, opts) ==
    IF opts.label = NoLabel THEN Raise(m, "other")
    ELSE IF Lower(opts.label) = "background" THEN PmtBackground(m, f)
    ELSE PmtReuse(m, f)

\* update_excel_results: the log directory is listed and, when it holds
\* measurement files (files), one write of the workbook is scheduled on the
\* host's idle queue with gobject.idle_add.
update_excel_results(m, f, files) ==
    LET a == DoExt(m, f, Cmd("update_excel_results", 0), m)
    IN  IF ~files THEN a ELSE Note([a EXCEPT !.idle_queue = IF Raised(a) THEN @ ELSE @ + 1], Cmd("idle_add", 0))

\* A record that is always named after the step's file.
PmtRecordFileName(m, f, opts, data) ==
    IF ~data THEN m
    ELSE LET a == DoExt(m, f, Cmd("write_ndjson", 0), [m EXCEPT !.records = @ + 1])
         IN  update_excel_results(a, f, TRUE)

\* The series is appended to the step's file and the workbook update is
\* scheduled, when the measurement returned data.  The series is named
\* after the step's file (0) or, with a label that is not empty, after the
\* label (1).
PmtRecord(m, f, opts, data) ==
    IF ~data THEN m
    ELSE LET a == DoExt(m, f, Cmd("write_ndjson", IF opts.label \in {NoLabel, ""} THEN 0 ELSE 1), [m EXCEPT !.records = @ + 1])
         IN  update_excel_results(a, f, TRUE)

PmtMeasure(m, f, opts, data) ==
    LET b == Do(m, f, Cmd("MAX11210_setSysOffsetCal", FromConfig), m)
        d == Do(b, f, Cmd("MAX11210_setSysGainCal", FromConfig), b)
        e == Do(d, f, Cmd("MAX11210_send_command", AdcStartCommand), d)
        g == Do(e, f, Cmd("get_adc_calibration", 0), e)
        h == Do(g, f, Cmd("pmt_reference_voltage", PmtReferenceReads), g)
        i == Do(h, f, Cmd("config", 0), h)
        j == Do(i, f, Cmd("config", 0), i)
        k == Do(j, f, Cmd("measure_dialog", opts.duration + 1), [j EXCEPT !.data = data])
    IN  PmtRecord(k, f, opts, data)

\* A PMT branch that initialises the ADC while the LEDs are still on.
PmtBranchLedsAfterBegin(m, f, opts, fresh, data) ==
    IF ~opts.Measure_PMT THEN m
    ELSE LET a == MAX11210_begin(m, f, fresh)
             b == Do(a, f, Cmd("led1.on", 0), [a EXCEPT !.led1 = FALSE])
             c == Do(b, f, Cmd("led2.on", 0), [b EXCEPT !.led2 = FALSE])
             d == PmtCalibration(c, f, opts)
         IN  PmtMeasure(d, f, opts, data)

PmtBranch(m, f, opts, fresh, data) ==
    IF ~opts.Measure_PMT THEN m
    ELSE LET a == Do(m, f, Cmd("led1.on", 0), [m EXCEPT !.led1 = FALSE])
             b == Do(a, f, Cmd("led2.on", 0), [a EXCEPT !.led2 = FALSE])
             c == MAX11210_begin(b, f, fresh)
             d == PmtCalibration(c, f, opts)
         IN  PmtMeasure(d, f, opts, data)

\* except Exception: the error is logged and the exception ends there.
ApplyExcept(m) ==
    IF Raised(m) THEN Log([m EXCEPT !.raised = m.exc, !.raised_in = m.phase, !.exc = "none"], "error:applying")
    ELSE m

\* A finally block that adds the step log and leaves the LEDs as they are.
ApplyFinallyLedsLeft(m, f, led1_on, led2_on) ==
    DoExt(m, f, Cmd("add_data", 0), [m EXCEPT !.step_logs = @ + 1])

\* finally: the saved LED state is written back and the step log is added.
ApplyFinally(m, f, led1_on, led2_on) ==
    LET a == Do(m, f, Cmd("led1.on", IF led1_on THEN 1 ELSE 0), [m EXCEPT !.led1 = led1_on])
        b == Do(a, f, Cmd("led2.on", IF led2_on THEN 1 ELSE 0), [a EXCEPT !.led2 = led2_on])
    IN  DoExt(b, f, Cmd("add_data", 0), [b EXCEPT !.step_logs = @ + 1])

\* The branch taken without a board: the one-shot warning.
ApplyNotConnected(m) ==
    IF ~m.user_warned
    THEN [Log(m, "warning:not_connected") EXCEPT !.user_warned = TRUE, !.episode = [applies |-> 1, warnings |-> m.episode.warnings + 1]]
    ELSE [m EXCEPT !.episode.applies = 1]

\* ---------------------------------------------------- open_board_connection
VersionParses(v) == Len(v) = 3

\* A comparison that also takes a difference in the micro number for a
\* mismatch.
VersionDiffers(host, remote) == host # remote

\* any([host.major != remote.major, host.minor != remote.minor])
VersionMismatch(host, remote) == host[1] # remote[1] \/ host[2] # remote[2]

\* on_flash_firmware: a failure of flash_firmware is logged, not raised.
on_flash_firmware(m, f) ==
    LET a == Do(m, f, Cmd("flash_firmware", 0), m)
    IN  IF Raised(a) THEN Log([a EXCEPT !.exc = "none"], "error:flash") ELSE Note(a, Cmd("info", 0))

\* try: self.board.close(); self.board = None / except Exception: pass.
\* With no handle the call raises AttributeError, which is dropped; closing a
\* handle that is already closed does nothing.
CloseStale(m, close_fails) ==
    IF m.board = "None" THEN m
    ELSE IF m.board = "open" /\ close_fails THEN [m EXCEPT !.faults = @ \cup {"close"}]
    ELSE Note([m EXCEPT !.board = "None"], Cmd("close", 0))

\* The body of the second try block of one attempt.
Connect(m, p) ==
    LET f == Fault(p.at, p.kind)
        a == DoExt(m, f, Cmd("SerialProxy", 0), [m EXCEPT !.board = "open", !.session_bg = NoBackground, !.session_bg_tried = FALSE])
        b == Do(a, f, Cmd("host_software_version", 0), a)
        c == Do(b, f, Cmd("remote_software_version", 0), b)
        d == IF Raised(c) THEN c
             ELSE IF VersionParses(p.remote) THEN [c EXCEPT !.remotes = Append(@, p.remote)]
             ELSE Raise(c, "other")
        e == IF Raised(d) \/ ~VersionMismatch(HostVersion, p.remote) THEN d
             ELSE LET q == Note(d, Cmd("yesno", IF p.response = "yes" THEN 1 ELSE 0))
                  IN  IF p.response = "yes" THEN on_flash_firmware(q, f) ELSE q
    IN  Do(e, f, Cmd("properties", 0), e)

\* One pass of the for loop: the exception left in flight is "link" when the
\* except clause caught it (the loop goes on after time.sleep(1)), "other"
\* when it escapes, "none" after break.
Attempt(m, p) ==
    LET s == [m EXCEPT !.attempts = @ + 1, !.n = 0, !.phase = "open"]
        r == Connect(CloseStale(s, p.close_fails), p)
    IN  IF r.exc = "link" THEN [Note([r EXCEPT !.exc = "none"], Cmd("sleep", 1)) EXCEPT !.exc = "link", !.link_failures = @ + 1] ELSE r

\* for ... else: the loop ended without break.
OpenGiveUp(m) == Log([m EXCEPT !.exc = "none"], "warning:could_not_be_established")

\* What one attempt meets: whether closing the stale handle fails, the
\* operation of the try block that raises (0: none) and what it raises, the
\* remote version identifier, and the answer to the firmware prompt.
AttemptPlans == [ close_fails : BOOLEAN, at : 0..5, kind : ExcKinds, remote : RemoteVersions, response : Responses ]

\* The plans that differ in what the attempt does.
Distinct(p) ==
    /\ p.at = 0 => p.kind = "link"
    /\ p.at \in 1..3 => p.remote = HostVersion
    /\ (~VersionParses(p.remote) \/ ~VersionMismatch(HostVersion, p.remote) \/ p.at \in 1..3) => p.response = "no"
    /\ ~VersionParses(p.remote) => p.at = 0
    /\ p.at <= Connect(Blank("plan"), [p EXCEPT !.at = 0]).n

FullPlans == { p \in AttemptPlans : Distinct(p) }

\* A link that opens or does not, with matching firmware.
BasicPlans == { p \in AttemptPlans : p.at \in {0, 1} /\ p.kind = "link" /\ p.remote = HostVersion /\ p.response = "no" /\ ~p.close_fails }

\* ------------------------------------------------------------ the actions
\* What a finished call leaves for inspection: its name and options, the
\* state it started from, the commands it issued and the messages it logged
\* in order, the exception that escaped it (escaped) or that its except
\* clause caught (raised), and the final ADC self-calibration registers.
Observation(m) ==
    [ name |-> m.name, opts |-> m.opts, pre |-> m.pre, cmds |-> m.cmds, logs |-> m.logs,
      escaped |-> m.exc, raised |-> m.raised, faults |-> m.faults, step_logs |-> m.step_logs,
      records |-> m.records, signals |-> m.signals, attempts |-> m.attempts,
      link_failures |-> m.link_failures, raised_in |-> m.raised_in, open_exc |-> m.open_exc,
      scgc |-> m.scgc, scoc |-> m.scoc, fills |-> m.fills,
      remotes |-> m.remotes, gain |-> m.gain, overrange |-> m.overrange,
      averages |-> m.averages, data |-> m.data, stage |-> "none",
      applies |-> m.applies, gate |-> m.gate ]

\* No handler is running: the host is between two signals.
IdleCall ==
    [ name |-> "idle", opts |-> NoOpts, pre |-> NoPre, cmds |-> << >>, logs |-> << >>,
      escaped |-> "none", raised |-> "none", faults |-> {}, step_logs |-> 0,
      records |-> 0, signals |-> 0, attempts |-> 0, link_failures |-> 0,
      raised_in |-> "none", open_exc |-> "none", scgc |-> None, scoc |-> None,
      fills |-> << >>, remotes |-> << >>, gain |-> None, overrange |-> FALSE,
      averages |-> << >>, data |-> FALSE, stage |-> "none", applies |-> 0, gate |-> NoGate ]

Idle == call.name = "idle"

Commit(m) ==
    /\ board' = m.board
    /\ user_warned' = m.user_warned
    /\ initialized' = m.initialized
    /\ dropbot_remote' = m.dropbot_remote
    /\ max_capacitance' = m.max_capacitance
    /\ adc_gain_calibration' = m.adc_gain_calibration
    /\ adc_offset_calibration' = m.adc_offset_calibration
    /\ led1' = m.led1
    /\ led2' = m.led2
    /\ zstage' = m.zstage
    /\ pump' = m.pump
    /\ session_bg' = m.session_bg
    /\ session_bg_tried' = m.session_bg_tried
    /\ episode' = m.episode
    /\ m.idle_queue <= MaxQueue
    /\ idle_queue' = m.idle_queue
    /\ call' = Observation(m)

\* The handler returned (or its exception reached the host's dispatcher):
\* the host is ready to send the next signal.  A scheduled write returns
\* when its loop has ended.
Return ==
    /\ ~Idle
    /\ call.stage \in {"none", "done"}
    /\ call' = IdleCall
    /\ UNCHANGED << board, user_warned, initialized, dropbot_remote, max_capacitance, adc_gain_calibration, adc_offset_calibration, led1, led2, zstage, pump, session_bg, session_bg_tried, episode, idle_queue >>

\* The host's main loop is idle and runs one scheduled write,
\* _threadsafe_write_results, up to its first call of _write_results.
threadsafe_write_results ==
    /\ Idle
    /\ idle_queue > 0
    /\ idle_queue' = idle_queue - 1
    /\ call' = [IdleCall EXCEPT !.name = "threadsafe_write_results", !.stage = "write"]
    /\ UNCHANGED << board, user_warned, initialized, dropbot_remote, max_capacitance, adc_gain_calibration, adc_offset_calibration, led1, led2, zstage, pump, session_bg, session_bg_tried, episode >>

\* The outcomes of _write_results.
WriteOutcomes == {"ok", "IOError", "other"}

\* One pass of `while True`: _write_results writes the workbook and the loop
\* ends (launching the workbook changes nothing here and its failure is
\* dropped); an IOError opens the yes/no dialog; any other exception leaves
\* the callback.
write_results ==
    /\ call.name = "threadsafe_write_results" /\ call.stage = "write"
    /\ \E outcome \in WriteOutcomes :
          call' = [call EXCEPT !.stage = IF outcome = "IOError" THEN "prompt" ELSE "done",
                               !.escaped = IF outcome = "other" THEN "other" ELSE @]
    /\ UNCHANGED << board, user_warned, initialized, dropbot_remote, max_capacitance, adc_gain_calibration, adc_offset_calibration, led1, led2, zstage, pump, session_bg, session_bg_tried, episode, idle_queue >>

\* The user answers the dialog: `no` breaks the loop, any other answer
\* starts the next pass.
yesno ==
    /\ call.name = "threadsafe_write_results" /\ call.stage = "prompt"
    /\ \E response \in Responses :
          call' = [call EXCEPT !.stage = IF response = "no" THEN "done" ELSE "write"]
    /\ UNCHANGED << board, user_warned, initialized, dropbot_remote, max_capacitance, adc_gain_calibration, adc_offset_calibration, led1, led2, zstage, pump, session_bg, session_bg_tried, episode, idle_queue >>

\* on_protocol_finished: update_excel_results(launch=True).
on_protocol_finished ==
    /\ Idle
    /\ \E files \in BOOLEAN :
          Commit(update_excel_results(Start("on_protocol_finished"), NoFault, files))

\* A profile names the inputs a specification explores: the step options
\* (opts), the values MAX11210_begin may leave in the self-calibration
\* registers (fresh), what a connection attempt may meet (plans), and the
\* blocks of a handler a fault may be injected in (phases).
\*
\* Where a fault may be injected in a block of k operations: at one of
\* them or nowhere, and nowhere once the call has had its fault.
FaultSet(m, k, P) == IF m.phase \in P.phases /\ m.faults = {} THEN 0..k ELSE {0}

\* on_step_run: emit_signal('on_step_complete') follows the apply call.
StepComplete(m) == IF m.name = "on_step_run" /\ ~Raised(m) THEN [m EXCEPT !.signals = @ + 1] ELSE m

ApplyEnd(m, P) ==
    LET x == EnterPhase(ApplyExcept(m), "finally")
    IN  \E ff \in FaultSet(x, 3, P) :
            Commit(StepComplete(ApplyFinally(x, Fault(ff, "link"), x.led1_on, x.led2_on)))

ApplyPmt(m, P) ==
    LET q == EnterPhase(m, "pmt")
        any == CHOOSE r \in P.fresh : TRUE
        dry == PmtBranch(q, NoFault, q.opts, any, FALSE)
        wet == PmtBranch(q, NoFault, q.opts, any, TRUE)
    IN  \E f \in FaultSet(q, wet.n, P) :
        \E fresh \in (IF q.opts.Measure_PMT /\ f \notin 1..3 THEN P.fresh ELSE {any}) :
        \E data \in (IF ~q.opts.Measure_PMT \/ Raised(dry) \/ f \in 1..dry.n THEN {FALSE} ELSE IF f = 0 THEN BOOLEAN ELSE {TRUE}) :
            ApplyEnd(PmtBranch(q, Fault(f, "link"), q.opts, fresh, data), P)

ApplyPump(m, P) ==
    LET q == EnterPhase(m, "pump")
        loops == q.opts.Pump /\ q.opts.auto /\ q.dropbot_remote /\ q.max_capacitance # None
    IN  \E fill \in (IF loops THEN FillCases ELSE {[rate |-> 0, dt |-> 1]}) :
        \E f \in FaultSet(q, PumpBranch(q, NoFault, q.opts, fill).n, P) :
            LET r == PumpBranch(q, Fault(f, "link"), q.opts, fill)
            IN  IF Raised(r) THEN ApplyEnd(r, P) ELSE ApplyPmt(r, P)

ApplyMagnet(m, P) ==
    LET q == EnterPhase(m, "magnet")
        homes == ~q.opts.Magnet /\ q.zstage # "home"
    IN  \E f \in FaultSet(q, MagnetBranch(q, NoFault, q.opts, TRUE).n, P) :
        \E homed \in (IF homes /\ f = 0 THEN BOOLEAN ELSE {TRUE}) :
            LET r == MagnetBranch(q, Fault(f, "link"), q.opts, homed)
            IN  IF Raised(r) THEN ApplyEnd(r, P) ELSE ApplyPump(r, P)

\* apply_step_options on the record m, whose opts are the step's.
apply_step_options(m0, P) ==
    LET m == [m0 EXCEPT !.applies = @ + 1]
    IN
    IF m.board = "None" THEN Commit(StepComplete(ApplyNotConnected(m)))
    ELSE LET q == EnterPhase(m, "pre")
         IN  \E f \in FaultSet(q, 3, P) :
                LET p == ApplyPre(q, Fault(f, "link"))
                IN  IF Raised(p) THEN Commit(p) ELSE ApplyMagnet(p, P)

on_step_run(P) ==
    /\ Idle
    /\ \E opts \in P.opts : apply_step_options([Start("on_step_run") EXCEPT !.opts = opts], P)

\* on_step_swapped applies when app.realtime_mode and not app.running.
SwappedApplies(gate) == gate.realtime_mode /\ ~gate.running

\* on_step_options_changed applies when all of: the plugin is this one,
\* app.realtime_mode, the step is the current step.
ChangedApplies(gate) == gate.plugin /\ gate.realtime_mode /\ gate.current

\* The fields of the gate that on_step_swapped does not read stay false.
on_step_swapped(P) ==
    /\ Idle
    /\ \E gate \in { g \in Gates : ~g.plugin /\ ~g.current } :
          LET m == [Start("on_step_swapped") EXCEPT !.gate = gate]
          IN  IF SwappedApplies(gate)
              THEN \E opts \in P.opts : apply_step_options([m EXCEPT !.opts = opts], P)
              ELSE Commit(m)

on_step_options_changed(P) ==
    /\ Idle
    /\ \E gate \in Gates :
          LET m == [Start("on_step_options_changed") EXCEPT !.gate = gate]
          IN  IF ChangedApplies(gate)
              THEN \E opts \in P.opts : apply_step_options([m EXCEPT !.opts = opts], P)
              ELSE Commit(m)

\* reset_board_state called on the record m.
ResetCall(m, P) ==
    LET q == EnterPhase(m, "reset")
        any == CHOOSE r \in P.fresh : TRUE
    IN  \E f \in FaultSet(q, reset_board_state(q, NoFault, TRUE, any).n, P) :
        \E homed \in (IF q.board = "open" /\ f # 1 THEN BOOLEAN ELSE {TRUE}) :
        \E fresh \in (IF q.board = "open" /\ f \notin 1..8 THEN P.fresh ELSE {any}) :
            Commit(reset_board_state(q, Fault(f, "link"), homed, fresh))

\* A direct call of reset_board_state.
call_reset_board_state(P) ==
    /\ Idle
    /\ ResetCall(Start("reset_board_state"), P)

\* on_plugin_enable after open_board_connection returned: the menu is built
\* once, and the board is reset when there is a handle.
EnableTail(m, P) ==
    IF Raised(m) THEN Commit([m EXCEPT !.open_exc = m.exc])
    ELSE LET a == [m EXCEPT !.initialized = TRUE]
         IN  IF a.board = "None" THEN Commit(a) ELSE ResetCall(a, P)

\* The for loop of open_board_connection, from its i-th pass on.
RECURSIVE OpenFrom(_, _, _)
OpenFrom(m, i, P) ==
    IF i > retry_count THEN EnableTail(OpenGiveUp(m), P)
    ELSE \E p \in P.plans :
            /\ p.close_fails => m.board = "open"
            /\ LET r == Attempt(m, p)
               IN  IF r.exc = "link" THEN OpenFrom([r EXCEPT !.exc = "none"], i + 1, P)
                   ELSE EnableTail(r, P)

on_plugin_enable(P) ==
    /\ Idle
    /\ OpenFrom([Start("on_plugin_enable") EXCEPT !.episode = [applies |-> 0, warnings |-> 0]], 1, P)

\* close_board_connection: the session is closed and the handle is kept.
close_board_connection(m, f) ==
    IF m.board = "None" THEN m
    ELSE IF m.board = "closed" THEN Note(m, Cmd("close", 0))
    ELSE Do(m, f, Cmd("close", 0), [m EXCEPT !.board = "closed"])

\* on_plugin_disable: the menu items exist once on_plugin_enable built them.
on_plugin_disable(P) ==
    /\ Idle
    /\ LET q == EnterPhase(Start("on_plugin_disable"), "close")
       IN  \E f \in FaultSet(q, 1, P) :
            LET a == close_board_connection(q, Fault(f, "link"))
            IN  Commit(IF a.initialized THEN a ELSE Raise(a, "other"))

\* The auto-pump initialisation of on_experiment_log_changed: its first
\* statement reads `app_values`, a name the handler never binds, so the
\* NameError is raised and dropped by `except Exception: pass`.
InitializeAutoPump(m) ==
    LET a == Raise(m, "other")
    IN  IF Raised(m) THEN m ELSE [a EXCEPT !.exc = "none"]

on_experiment_log_changed(P) ==
    /\ Idle
    /\ LET m == EnterPhase(Start("on_experiment_log_changed"), "reset")
           any == CHOOSE r \in P.fresh : TRUE
       IN  IF m.board = "None" THEN Commit(InitializeAutoPump(m))
           ELSE \E f \in FaultSet(m, reset_board_state(m, NoFault, TRUE, any).n, P) :
                \E homed \in (IF m.board = "open" /\ f # 1 THEN BOOLEAN ELSE {TRUE}) :
                    Commit(InitializeAutoPump(reset_board_state(m, Fault(f, "link"), homed, any)))

\* initialize_connection_with_dropbot: the reference to the DropBot is
\* taken when its plugin is enabled; every failure is logged and dropped.
initialize_connection_with_dropbot(m, enabled) ==
    IF enabled THEN [m EXCEPT !.dropbot_remote = TRUE]
    ELSE Log(m, "warning:dropbot")

on_protocol_run ==
    /\ Idle
    /\ \E enabled \in BOOLEAN :
            Commit(initialize_connection_with_dropbot(Start("on_protocol_run"), enabled))

\* on_protocol_pause: the shutter is closed through self.board, with no
\* test of the handle; on None the attribute access raises.
on_protocol_pause(P) ==
    /\ Idle
    /\ LET q == EnterPhase(Start("on_protocol_pause"), "pause")
       IN  IF q.board = "None" THEN Commit(Raise(q, "other"))
           ELSE \E f \in FaultSet(q, 1, P) :
                    Commit(Do(q, Fault(f, "link"), Cmd("pmt_close_shutter", 0), q))

\* on_edit_configuration: the configuration is read through self.board,
\* with no test of the handle, and written back when the dialog is valid.
on_edit_configuration(P) ==
    /\ Idle
    /\ LET q == EnterPhase(Start("on_edit_configuration"), "edit")
       IN  IF q.board = "None" THEN Commit(Raise(q, "other"))
           ELSE \E f \in FaultSet(q, 2, P) : \E valid \in BOOLEAN :
                    LET a == Do(q, Fault(f, "link"), Cmd("config", 0), q)
                    IN  Commit(IF valid THEN Do(a, Fault(f, "link"), Cmd("update_config", 0), a) ELSE a)

\* on_app_options_changed: the LEDs are updated when the options are the
\* plugin's own and there is a handle.
on_app_options_changed(P) ==
    /\ Idle
    /\ LET q == EnterPhase(Start("on_app_options_changed"), "leds")
       IN  \E own \in BOOLEAN :
            IF own /\ q.board # "None"
            THEN \E f \in FaultSet(q, 2, P) : Commit(update_leds(q, Fault(f, "link")))
            ELSE Commit(q)

Init ==
    /\ board = "None"
    /\ user_warned = FALSE
    /\ initialized = FALSE
    /\ dropbot_remote = FALSE
    /\ max_capacitance = None
    /\ adc_gain_calibration = None
    /\ adc_offset_calibration = None
    /\ led1 \in BOOLEAN
    /\ led2 \in BOOLEAN
    /\ zstage \in ZPositions
    /\ pump = FALSE
    /\ session_bg = NoBackground
    /\ session_bg_tried = FALSE
    /\ episode = [applies |-> 0, warnings |-> 0]
    /\ idle_queue = 0
    /\ call = IdleCall

AllPhases == {"pre", "magnet", "pump", "pmt", "finally", "reset", "close"}

\* ------------------------------------------------ the step orchestration
\* Every combination of step options, a fault at every operation of every
\* handler; the link opens or does not, and the ADC calibrates to one value.
StepProfile == [ opts |-> { o \in DefaultOptions : o.label \in {NoLabel, "background", "sample"} }, fresh |-> {<< MaxReg, MaxReg >>}, plans |-> BasicPlans, phases |-> AllPhases ]

Next ==
    \/ Return
    \/ threadsafe_write_results
    \/ write_results
    \/ yesno
    \/ on_plugin_enable(StepProfile)
    \/ on_plugin_disable(StepProfile)
    \/ on_step_run(StepProfile)
    \/ call_reset_board_state(StepProfile)
    \/ on_experiment_log_changed(StepProfile)

Spec == Init /\ [][Next]_vars

\* ------------------------------------------------------- the calibration
\* PMT steps with every label and every register value, a fault at every
\* operation of the PMT branch, across reconnections.
CalProfile == [ opts |-> { o \in DefaultOptions : ~o.Magnet /\ ~o.Pump /\ ~o.auto /\ o.Measure_PMT }, fresh |-> FreshRegs, plans |-> BasicPlans, phases |-> {"pmt"} ]

NextCal ==
    \/ Return
    \/ threadsafe_write_results
    \/ write_results
    \/ yesno
    \/ on_plugin_enable(CalProfile)
    \/ on_step_run(CalProfile)

SpecCal == Init /\ [][NextCal]_vars

\* -------------------------------------------------------- the connection
\* Everything a connection attempt may meet, with steps that ask for
\* nothing but the magnet and a fault in closing the session.
ConnProfile == [ opts |-> { o \in DefaultOptions : ~o.Pump /\ ~o.auto /\ ~o.Measure_PMT /\ o.label = NoLabel }, fresh |-> {<< MaxReg, MaxReg >>}, plans |-> FullPlans, phases |-> {"close"} ]

NextConn ==
    \/ Return
    \/ on_plugin_enable(ConnProfile)
    \/ on_plugin_disable(ConnProfile)
    \/ on_step_run(ConnProfile)
    \/ call_reset_board_state(ConnProfile)
    \/ on_experiment_log_changed(ConnProfile)
    \/ on_protocol_pause(ConnProfile)
    \/ on_edit_configuration(ConnProfile)
    \/ on_app_options_changed(ConnProfile)

SpecConn == Init /\ [][NextConn]_vars

\* ------------------------------------------------------ the feedback fill
\* The feedback pump routine entered with a target capacitance: the target
\* is its input, drawn from Targets, and every capacitance source and pace
\* of FillCases is tried, with a fault at every operation of the branch.
MaxTarget == 2
Targets == 0..MaxTarget

InitFill ==
    /\ board = "None"
    /\ user_warned = FALSE
    /\ initialized = FALSE
    /\ dropbot_remote = FALSE
    /\ max_capacitance \in Targets
    /\ adc_gain_calibration = None
    /\ adc_offset_calibration = None
    /\ led1 \in BOOLEAN
    /\ led2 \in BOOLEAN
    /\ zstage = "home"
    /\ pump = FALSE
    /\ session_bg = NoBackground
    /\ session_bg_tried = FALSE
    /\ episode = [applies |-> 0, warnings |-> 0]
    /\ idle_queue = 0
    /\ call = IdleCall

FillProfile == [ opts |-> { o \in DefaultOptions : ~o.Magnet /\ o.Pump /\ o.auto /\ ~o.Measure_PMT /\ o.label = NoLabel }, fresh |-> {<< MaxReg, MaxReg >>}, plans |-> BasicPlans, phases |-> {"pump"} ]

NextFill ==
    \/ Return
    \/ on_plugin_enable(FillProfile)
    \/ on_protocol_run
    \/ on_step_run(FillProfile)

SpecFill == InitFill /\ [][NextFill]_vars

\* ------------------------------------------------------ the step's branches
\* Steps with every value of the numeric fields, with no label, an empty
\* label or a label, and a fault at every operation of the three branches.
BranchProfile == [ opts |-> { o \in StepOptions : o.label \in {NoLabel, "", "sample"} }, fresh |-> {<< MaxReg, MaxReg >>}, plans |-> BasicPlans, phases |-> {"magnet", "pump", "pmt"} ]

NextBranch ==
    \/ Return
    \/ threadsafe_write_results
    \/ write_results
    \/ yesno
    \/ on_plugin_enable(BranchProfile)
    \/ on_step_run(BranchProfile)

SpecBranch == Init /\ [][NextBranch]_vars

\* ------------------------------------------------------ the workbook write
\* PMT steps that measure and protocols that finish, with and without
\* measurement files, and the scheduled writes the host runs when idle.  The
\* host runs a callback that is ready and a dialog that is open gets its
\* answer; which answer, and whether a write succeeds, is not the host's
\* choice.
ExcelProfile == [ opts |-> { o \in DefaultOptions : ~o.Pump /\ ~o.auto /\ o.Measure_PMT /\ o.label = "sample" }, fresh |-> {<< MaxReg, MaxReg >>}, plans |-> BasicPlans, phases |-> {"pmt"} ]

NextExcel ==
    \/ Return
    \/ threadsafe_write_results
    \/ write_results
    \/ yesno
    \/ on_plugin_enable(ExcelProfile)
    \/ on_step_run(ExcelProfile)
    \/ on_protocol_finished

SpecExcel ==
    /\ Init
    /\ [][NextExcel]_vars
    /\ WF_vars(Return)
    /\ WF_vars(threadsafe_write_results)
    /\ WF_vars(write_results)
    /\ WF_vars(yesno)

\* ------------------------------------------------------ the real-time mode
\* Steps that move the magnet or pump, applied by a running protocol and by
\* the real-time handlers, with every value of what they read of the host.
RealtimeProfile == [ opts |-> { o \in DefaultOptions : ~o.auto /\ ~o.Measure_PMT /\ o.label = NoLabel }, fresh |-> {<< MaxReg, MaxReg >>}, plans |-> BasicPlans, phases |-> {"magnet", "pump"} ]

NextRealtime ==
    \/ Return
    \/ on_plugin_enable(RealtimeProfile)
    \/ on_step_run(RealtimeProfile)
    \/ on_step_swapped(RealtimeProfile)
    \/ on_step_options_changed(RealtimeProfile)

SpecRealtime == Init /\ [][NextRealtime]_vars

\* --------------------------------------------------------- the gain search
\* select_gain, the adaptive choice of the ADC's digital gain before a
\* measurement.  The averaged reading at each gain is its input; the values
\* tried lie on both sides of the saturation threshold 2^24 - 2^19 and of
\* the full scale 2^24 - 1.
MaxGain == 16
GainSamples == 10
SaturationThreshold == 2^24 - 2^19
FullScale == 2^24 - 1
Gains == {1, 2, 4, 8, 16}
Averages == {0, SaturationThreshold - 1, SaturationThreshold, FullScale - 1, FullScale}
Readings == [Gains -> Averages]

\* One iteration: the shutter is opened, GainSamples reads are averaged and
\* the shutter is closed.
GainRead(m, gain, reading) ==
    LET a == Do(m, NoFault, Cmd("pmt_open_shutter", 0), m)
        b == Do(a, NoFault, Cmd("MAX11210_read", GainSamples), [a EXCEPT !.averages = Append(@, reading[gain])])
    IN  Do(b, NoFault, Cmd("pmt_close_shutter", 0), b)

\* A search that goes on halving below gain 1.
RECURSIVE GainSearchNoFloor(_, _, _)
GainSearchNoFloor(m, gain, reading) ==
    IF gain = 0 THEN [m EXCEPT !.gain = 0, !.overrange = TRUE]
    ELSE LET a == GainRead(m, gain, reading)
         IN  IF reading[gain] < SaturationThreshold THEN [a EXCEPT !.gain = gain]
             ELSE GainSearchNoFloor(a, gain \div 2, reading)

\* A search that reports an overrange whenever gain 1 is saturated.
RECURSIVE GainSearchOverrangeAtThreshold(_, _, _)
GainSearchOverrangeAtThreshold(m, gain, reading) ==
    LET a == GainRead(m, gain, reading)
    IN  IF reading[gain] < SaturationThreshold THEN [a EXCEPT !.gain = gain]
        ELSE IF gain = 1 THEN [a EXCEPT !.gain = 1, !.overrange = TRUE]
        ELSE GainSearchOverrangeAtThreshold(a, gain \div 2, reading)

\* The search from a gain on: stop below the threshold; at gain 1 stop and
\* flag the overrange only at full scale; otherwise halve the gain.
RECURSIVE GainSearch(_, _, _)
GainSearch(m, gain, reading) ==
    LET a == GainRead(m, gain, reading)
    IN  IF reading[gain] < SaturationThreshold THEN [a EXCEPT !.gain = gain]
        ELSE IF gain = 1 THEN [a EXCEPT !.gain = 1, !.overrange = (reading[1] >= FullScale)]
        ELSE GainSearch(a, gain \div 2, reading)

select_gain ==
    /\ Idle
    /\ board = "open"
    /\ \E reading \in Readings :
            Commit(GainSearch(Start("select_gain"), MaxGain, reading))

GainProfile == [ opts |-> {NoOpts}, fresh |-> {<< MaxReg, MaxReg >>}, plans |-> BasicPlans, phases |-> {} ]

NextGain ==
    \/ Return
    \/ on_plugin_enable(GainProfile)
    \/ select_gain

SpecGain == Init /\ [][NextGain]_vars

\* ============================================================ properties
\* The handlers that call apply_step_options.
ApplyCalls == {"on_step_run"}

\* The call that just returned applied step options with a handle set.
ConnectedApply == call.name \in ApplyCalls /\ call.pre.board # "None"

\* C1: an apply call with a board handle and Measure_PMT enabled leaves
\* LED 1 and LED 2 as they were before the call, wherever a fault is
\* injected in the magnet, pump or PMT branch.
C1_LedsRestored ==
    (ConnectedApply /\ call.opts.Measure_PMT /\ call.faults \subseteq {"magnet", "pump", "pmt"})
        => (led1 = call.pre.led1 /\ led2 = call.pre.led2)

\* A PMT step whose LEDs were on, forced off, and whose measurement then
\* failed after the ADC was initialised.
C1_Witness ==
    /\ ConnectedApply /\ call.opts.Measure_PMT
    /\ call.faults = {"pmt"} /\ call.raised = "link"
    /\ call.pre.led1 /\ call.pre.led2
    /\ Len(Named(call.cmds, "MAX11210_begin")) = 1
    /\ Len(Named(call.cmds, "get_adc_calibration")) = 1

\* C2: no exception escapes apply_step_options, whichever operation
\* raises, the LED reads at the start and the finally block included.
C2_NoExceptionEscapesApply == call.name \in ApplyCalls => call.escaped = "none"

\* The pump branch of the call raised, in a step that also measures.
PumpFailed ==
    /\ ConnectedApply /\ call.opts.Pump /\ call.opts.Measure_PMT
    /\ ("pump" \in call.faults \/ call.raised_in = "pump")

\* C3 as stated: when the pump branch raises in a step with Measure_PMT
\* enabled, the PMT branch is still attempted in that call: the LEDs are
\* forced off and the ADC initialisation is issued.
C3_PmtAttemptedAfterPumpFailure ==
    PumpFailed => (/\ Len(Named(call.cmds, "MAX11210_begin")) = 1
                   /\ \E i \in 1..Len(call.cmds) : call.cmds[i] = Cmd("led1.on", 0) /\ i < FirstAt(call.cmds, "MAX11210_begin"))

\* C3 as amended: when the pump branch raises in a step with Measure_PMT
\* enabled, the rest of the try block is skipped: no ADC initialisation and
\* no measurement is issued, each LED is written at most once (the write of
\* the finally block), and the error is logged once; unless the finally
\* block itself fails, it writes the saved LED state back and adds the step
\* log.
C3_PumpFailureSkipsPmt ==
    PumpFailed => (/\ Named(call.cmds, "MAX11210_begin") = << >>
                   /\ Named(call.cmds, "measure_dialog") = << >>
                   /\ Len(Named(call.cmds, "led1.on")) <= 1
                   /\ Len(Named(call.cmds, "led2.on")) <= 1
                   /\ Count(call.logs, "error:applying") = 1
                   /\ "finally" \notin call.faults
                        => (/\ Named(call.cmds, "led1.on") = << Cmd("led1.on", IF call.pre.led1 THEN 1 ELSE 0) >>
                            /\ Named(call.cmds, "led2.on") = << Cmd("led2.on", IF call.pre.led2 THEN 1 ELSE 0) >>
                            /\ call.step_logs = 1))

\* A manual pump step that failed while the pump was running.
C3_Witness ==
    /\ PumpFailed /\ ~call.opts.auto /\ "pump" \in call.faults
    /\ Len(Named(call.cmds, "pump_activate")) = 1

\* C4: when both attempts of open_board_connection fail with a link error,
\* the handle is None on return, the 'could not be established' warning is
\* logged once and there is no third attempt.
C4_TwoLinkFailuresLeaveNoHandle ==
    (call.name = "on_plugin_enable" /\ call.link_failures = retry_count)
        => (/\ board = "None"
            /\ Count(call.logs, "warning:could_not_be_established") = 1
            /\ call.attempts = retry_count)

\* C5: open_board_connection never raises to its caller.
C5_OpenNeverRaises == call.name = "on_plugin_enable" => call.open_exc = "none"

\* C6: without a handle an apply call touches nothing (no command, no step
\* log), and once an apply call has run in a disconnected episode (since
\* the last connection attempt or reset) the 'not connected' warning has
\* been logged exactly once in it.
C6_OneWarningPerEpisode ==
    /\ (call.name \in ApplyCalls /\ call.pre.board = "None") => (call.cmds = << >> /\ call.step_logs = 0)
    /\ episode.applies = 1 => episode.warnings = 1

\* C7: a connection attempt made after the warning was logged clears the
\* user-warned latch, whether the attempt succeeds or fails.
C7_AttemptRearmsWarning == (call.name = "on_plugin_enable" /\ call.pre.user_warned) => ~user_warned

\* reset_board_state was called with no handle.
ResetWithoutHandle == call.name = "reset_board_state" /\ call.pre.board = "None"

\* What reset_board_state leaves alone when there is no handle: it issues no
\* command, logs and raises nothing, and keeps the handle, the calibration
\* values, the target capacitance and the hardware as they were.
ResetFrame ==
    /\ call.cmds = << >> /\ call.logs = << >> /\ call.escaped = "none"
    /\ board = "None"
    /\ adc_gain_calibration = call.pre.adc_gain_calibration
    /\ adc_offset_calibration = call.pre.adc_offset_calibration
    /\ max_capacitance = call.pre.max_capacitance
    /\ led1 = call.pre.led1 /\ led2 = call.pre.led2
    /\ zstage = call.pre.zstage /\ pump = call.pre.pump

NonBackgroundPmt ==
    /\ ConnectedApply /\ call.opts.Measure_PMT
    /\ call.opts.label # NoLabel /\ Lower(call.opts.label) # "background"
    /\ call.raised = "none" /\ call.escaped = "none"

\* C9: the stored calibration is empty after a (re)connection: a
\* non-background PMT step that runs before any background step of the new
\* session logs the missing-calibration warning and writes no stored
\* calibration value to the board.
C9_NoCalibrationAfterReconnect ==
    (NonBackgroundPmt /\ ~call.pre.session_bg_tried)
        => (/\ Count(call.logs, "warning:missing_calibration") = 1
            /\ Named(call.cmds, "MAX11210_setSelfCalGain") = << >>
            /\ Named(call.cmds, "MAX11210_setSelfCalOffset") = << >>)

\* C10: after a background step completed in the session, a non-background
\* PMT step writes the gain and offset that step captured, after the ADC
\* initialisation and before the system calibration constants and the
\* measurement, and the registers end with the captured values.
C10_ReusesBackgroundCalibration ==
    (NonBackgroundPmt /\ call.pre.session_bg # NoBackground)
        => (/\ Named(call.cmds, "MAX11210_setSelfCalGain") = << Cmd("MAX11210_setSelfCalGain", call.pre.session_bg[1]) >>
            /\ Named(call.cmds, "MAX11210_setSelfCalOffset") = << Cmd("MAX11210_setSelfCalOffset", call.pre.session_bg[2]) >>
            /\ FirstAt(call.cmds, "MAX11210_begin") < FirstAt(call.cmds, "MAX11210_setSelfCalGain")
            /\ FirstAt(call.cmds, "MAX11210_setSelfCalGain") < FirstAt(call.cmds, "MAX11210_setSelfCalOffset")
            /\ FirstAt(call.cmds, "MAX11210_setSelfCalOffset") < FirstAt(call.cmds, "MAX11210_setSysOffsetCal")
            /\ FirstAt(call.cmds, "MAX11210_setSysOffsetCal") < FirstAt(call.cmds, "measure_dialog")
            /\ call.scgc = call.pre.session_bg[1]
            /\ call.scoc = call.pre.session_bg[2])

\* A PMT step whose label is not 'background' (it may have no label at all)
\* and that finds no stored calibration; no board call of it fails.
UncalibratedPmt ==
    /\ ConnectedApply /\ call.pre.board = "open" /\ call.opts.Measure_PMT
    /\ (call.opts.label = NoLabel \/ Lower(call.opts.label) # "background")
    /\ ~Truthy(call.pre.adc_gain_calibration)
    /\ call.faults = {}

\* C11: a PMT step that is not labelled 'background' and finds no stored
\* calibration warns once and proceeds: the system offset and gain constants
\* are written and the measurement is run in that call, also when the step
\* has no label at all.
C11_UncalibratedStepProceeds ==
    UncalibratedPmt => (/\ Count(call.logs, "warning:missing_calibration") = 1
                        /\ Len(Named(call.cmds, "MAX11210_setSysOffsetCal")) = 1
                        /\ Len(Named(call.cmds, "MAX11210_setSysGainCal")) = 1
                        /\ Len(Named(call.cmds, "measure_dialog")) = 1)

\* The z-stage motion requests of a call, in the order they were issued.
Motions(cmds) == SelectSeq(cmds, LAMBDA c : c[1] \in {"zstage.up", "zstage.move_to", "zstage.home"})

\* An apply call on an open handle that got past the LED reads and whose
\* magnet branch met no link fault.
MagnetBranchRan ==
    /\ ConnectedApply /\ call.pre.board = "open"
    /\ call.faults \cap {"pre", "magnet"} = {}

\* C12: with Magnet false and the z-stage not at home, the call issues
\* move_to(1) and then home(), with no other z-stage motion between them;
\* with the z-stage at home it issues no z-stage motion at all.
C12_DownRoutesThroughLow ==
    (MagnetBranchRan /\ ~call.opts.Magnet)
        => Motions(call.cmds) = IF call.pre.zstage = "home" THEN << >>
                                ELSE << Cmd("zstage.move_to", 1), Cmd("zstage.home", 0) >>

\* A step that lowers the magnet from the up position and reaches home.
C12_Witness ==
    /\ MagnetBranchRan /\ ~call.opts.Magnet
    /\ call.pre.zstage = "up" /\ zstage = "home"
    /\ Len(Named(call.cmds, "zstage.move_to")) = 1

\* C13: with Magnet true the call issues exactly one move-to-up request and
\* neither a low-position move nor a home command, whatever the position of
\* the z-stage; when the request itself fails, nothing else is sent to the
\* z-stage.
C13_UpIsOneDirectMove ==
    (ConnectedApply /\ call.opts.Magnet)
        => (/\ Named(call.cmds, "zstage.move_to") = << >>
            /\ Named(call.cmds, "zstage.home") = << >>
            /\ Len(Named(call.cmds, "zstage.up")) <= 1
            /\ MagnetBranchRan => Motions(call.cmds) = << Cmd("zstage.up", 0) >>)

\* A step that engages the magnet while the z-stage is already up.
C13_Witness ==
    /\ MagnetBranchRan /\ call.opts.Magnet
    /\ call.pre.zstage = "up" /\ zstage = "up"
    /\ Len(Named(call.cmds, "zstage.up")) = 1

\* An apply call that reached the feedback loop on an open handle, with a
\* target capacitance.
LoopEntered ==
    /\ ConnectedApply /\ call.pre.board = "open"
    /\ call.opts.Pump /\ call.opts.auto
    /\ call.pre.max_capacitance # None
    /\ Len(Named(call.cmds, "state_of_channels")) = 1

\* C14: the feedback loop ends, also when the capacitance never reaches the
\* target: every pump activation was started with the average below the
\* target and less than 5 seconds elapsed, there are at most as many passes
\* as the timeout allows, and when the loop has run and exits the pump is
\* deactivated.
C14_FillLoopStopsAtTimeoutOrTarget ==
    (LoopEntered /\ call.faults = {})
        => (/\ \A i \in 1..Len(call.fills) :
                    call.fills[i][1] < call.pre.max_capacitance /\ call.fills[i][2] < PumpTimeout
            /\ Len(call.fills) <= PumpTimeout
            /\ Len(Named(call.cmds, "pump_activate")) = Len(call.fills)
            /\ Len(Named(call.cmds, "pump_deactivate")) = Len(call.fills)
            /\ Count(call.logs, "info:capacitance") = 1
            /\ call.fills # << >> => ~pump)

\* A fill that never reached its target and stopped at the timeout.
C14_Witness ==
    /\ LoopEntered /\ call.faults = {}
    /\ Len(call.fills) = PumpTimeout
    /\ call.fills[PumpTimeout][1] = 0 /\ call.pre.max_capacitance > 0
    /\ ~pump

C16_NoHandleAfterClose ==
    /\ (call.name = "on_plugin_disable" /\ call.faults = {}) => board = "None"
    /\ call.name \in ApplyCalls \cup {"reset_board_state"} => call.pre.board # "closed"

\* The handlers that touch the board, each entered with no handle
\* (close_board_connection is entered through on_plugin_disable, once the
\* menu that handler hides has been built).
UnconnectedCall ==
    /\ call.pre.board = "None"
    /\ \/ call.name \in ApplyCalls \cup {"reset_board_state", "on_app_options_changed", "on_experiment_log_changed", "on_protocol_pause", "on_edit_configuration"}
       \/ call.name = "on_plugin_disable" /\ initialized

\* C17: with the handle unset, every handler that touches the board returns
\* without accessing the board and without raising.
C17_UnconnectedHandlersReturn ==
    UnconnectedCall => (call.cmds = << >> /\ call.escaped = "none")

\* C18: every on_step_run emits on_step_complete exactly once, after the
\* step options were applied, whether or not the board is connected and
\* whether or not an operation failed while the step was applied.
C18_StepCompleteAlwaysEmitted == call.name = "on_step_run" => call.signals = 1

\* The position of the last session opened before the i-th command of a
\* call (0 when the call opened none before it).
LastOpenBefore(cmds, i) ==
    LET opened == { j \in 1..(i - 1) : cmds[j][1] = "SerialProxy" }
    IN  IF opened = {} THEN 0 ELSE CHOOSE j \in opened : \A k \in opened : k <= j

\* Every session a call opened was opened with no other session live: there
\* was no handle, or the session of the handle was closed since it was
\* opened.
OneLiveSession(cmds, pre) ==
    \A i \in 1..Len(cmds) :
        cmds[i][1] = "SerialProxy"
            => LET j == LastOpenBefore(cmds, i)
               IN  \/ j = 0 /\ pre.board = "None"
                   \/ \E k \in (j + 1)..(i - 1) : cmds[k][1] = "close"

\* C19: at most one serial session is live at any time: in every attempt of
\* open_board_connection the previous handle, if any, has been closed before
\* a new session is opened.
C19_OneLiveSession ==
    call.name = "on_plugin_enable" => OneLiveSession(call.cmds, call.pre)

\* The attempts of a call that read a remote version differing from the
\* host's in its major or minor number (remotes holds the versions read).
Mismatched(remotes) ==
    { i \in 1..Len(remotes) : remotes[i][1] # HostVersion[1] \/ remotes[i][2] # HostVersion[2] }

\* The firmware prompts of a call that were answered yes.
Granted(cmds) == SelectSeq(cmds, LAMBDA c : c = Cmd("yesno", 1))

\* C20: in open_board_connection the firmware prompt is shown if and only if
\* the versions differ in major or minor number; the flash runs only on the
\* answer yes; and whatever the answer, and whether or not the flash fails,
\* the attempt ends connected: the handle is kept, there is no retry and no
\* 'could not be established' warning.
C20_FirmwarePromptOnMajorMinorOnly ==
    call.name = "on_plugin_enable"
        => (/\ Len(Named(call.cmds, "yesno")) = Cardinality(Mismatched(call.remotes))
            /\ Len(Named(call.cmds, "flash_firmware")) + Count(call.logs, "error:flash") = Len(Granted(call.cmds))
            /\ Count(call.logs, "error:flash") >= 1
                => (/\ board = "open" /\ call.open_exc = "none"
                    /\ Count(call.logs, "error:flash") = 1
                    /\ call.attempts = call.link_failures + 1
                    /\ Count(call.logs, "warning:could_not_be_established") = 0)
            /\ (call.faults = {} /\ call.open_exc = "none")
                => (/\ board = "open" /\ call.attempts = 1
                    /\ Count(call.logs, "warning:could_not_be_established") = 0))

\* A first attempt that met a firmware with another minor number, was told
\* to update it, failed to flash and still ended connected.
C20_Witness ==
    /\ call.name = "on_plugin_enable"
    /\ call.remotes = << << 1, 1, 0 >> >>
    /\ Granted(call.cmds) # << >>
    /\ Count(call.logs, "error:flash") = 1
    /\ board = "open" /\ call.attempts = 1

SaturatedAtEveryGain ==
    /\ call.name = "select_gain"
    /\ Len(call.averages) = 5
    /\ \A i \in 1..5 : call.averages[i] >= 2^24 - 2^19

ResetOrder ==
    << Cmd("zstage.home", 0), Cmd("zstage.is_down", 0), Cmd("pump_deactivate", 0),
       Cmd("pump_frequency_set", 0), Cmd("pin_mode", 9), Cmd("pmt_close_shutter", 0),
       Cmd("pmt_set_pot", 0), Cmd("MAX11210_begin", 0), Cmd("led1.brightness", 0),
       Cmd("led2.brightness", 0), Cmd("led1.on", 1), Cmd("led2.on", 1) >>

\* C23: reset_board_state with a handle issues its commands in one fixed
\* order: home the z-stage, check that it is homed, deactivate the pump, set
\* the pump frequency to 0, make the shutter pin an output, close the
\* shutter, zero the PMT voltage, initialise the ADC and, last, turn the LEDs
\* on; a reset that a failing command cuts short issued a prefix of that
\* order and nothing else stops it: a failed homing check logs one warning
\* and the reset goes on.
C23_ResetOrderFixed ==
    (call.name = "reset_board_state" /\ call.pre.board = "open")
        => (/\ Len(call.cmds) <= Len(ResetOrder)
            /\ call.cmds = SubSeq(ResetOrder, 1, Len(call.cmds))
            /\ call.faults = {} => (call.cmds = ResetOrder /\ call.escaped = "none")
            /\ Count(call.logs, "warning:homing")
                 = (IF Len(call.cmds) >= 2 /\ zstage # "home" THEN 1 ELSE 0)
            /\ Len(call.logs) = Count(call.logs, "warning:homing"))

\* A reset whose homing check failed and that went on to the LEDs.
C23_Witness ==
    /\ call.name = "reset_board_state" /\ call.pre.board = "open"
    /\ Count(call.logs, "warning:homing") = 1
    /\ call.cmds = ResetOrder /\ led1 /\ led2 /\ ~pump

\* The branch of apply_step_options a command belongs to: 0 for the reads
\* before the try block, 1 magnet, 2 pump, 3 PMT and the LED writes, 4 the
\* step log.
Branch(c) ==
    IF c[1] \in {"zstage.up", "zstage.is_down", "zstage.move_to", "zstage.home"} THEN 1
    ELSE IF c[1] \in {"pump_frequency_set", "pump_activate", "pump_deactivate", "sleep",
                      "number_of_channels", "state_of_channels", "measure_capacitance"} THEN 2
    ELSE IF c[1] \in {"get_environment_state", "led1.on?", "led2.on?"} THEN 0
    ELSE IF c[1] = "add_data" THEN 4
    ELSE 3

LedWrite(c) == c[1] \in {"led1.on", "led2.on"}

\* C24: within one apply the branches run in the order magnet, pump, PMT;
\* in the PMT branch both LEDs are switched off before the ADC is
\* initialised and before any sample is read, no LED is written again until
\* the branch is over (the data handed to the recorder), and the measurement
\* runs for the step's duration plus exactly 1 second.
C24_BranchOrderAndLedIsolation ==
    ConnectedApply
        => (/\ \A i, j \in 1..Len(call.cmds) : i < j => Branch(call.cmds[i]) <= Branch(call.cmds[j])
            /\ LET b == FirstAt(call.cmds, "MAX11210_begin")
               IN  /\ \A i \in 1..Len(call.cmds) :
                        (Branch(call.cmds[i]) = 3 /\ ~LedWrite(call.cmds[i])) => (b # 0 /\ b <= i)
                   /\ b # 0 => (/\ b > 2
                                /\ call.cmds[b - 2] = Cmd("led1.on", 0)
                                /\ call.cmds[b - 1] = Cmd("led2.on", 0)
                                /\ \A i \in (b + 1)..Len(call.cmds) :
                                      LedWrite(call.cmds[i])
                                        => \A j \in i..Len(call.cmds) : LedWrite(call.cmds[j]) \/ Branch(call.cmds[j]) = 4)
            /\ \A i \in 1..Len(call.cmds) :
                  call.cmds[i][1] = "measure_dialog" => call.cmds[i][2] = call.opts.duration + 1)

\* A step that moved the magnet, pumped and measured for a duration other
\* than the default, with LEDs that were on before it.
C24_Witness ==
    /\ ConnectedApply
    /\ call.opts.Magnet /\ call.opts.Pump /\ call.opts.Measure_PMT
    /\ call.pre.led1 /\ call.pre.led2
    /\ call.opts.duration = 0
    /\ Len(Named(call.cmds, "zstage.up")) = 1
    /\ Len(Named(call.cmds, "pump_activate")) = 1
    /\ Named(call.cmds, "measure_dialog") = << Cmd("measure_dialog", 1) >>
    /\ call.records = 1 /\ led1 /\ led2

\* A manual pump step: the pump is on and 'Use auto pump' is off.
ManualPumpStep == ConnectedApply /\ call.opts.Pump /\ ~call.opts.auto

PumpCommands == SelectSeq(call.cmds, LAMBDA c : Branch(c) = 2)

\* The commands of a manual pump step, in their order.
ManualPumpOrder ==
    << Cmd("pump_frequency_set", call.opts.frequency), Cmd("pump_activate", 0),
       Cmd("sleep", call.opts.pump_duration), Cmd("pump_deactivate", 0) >>

\* C25: a manual pump step sets the pump frequency to the step's frequency,
\* activates the pump, holds for the step's pump duration and deactivates it,
\* in that order, and the pump is active only between the activation and the
\* deactivation; a step with Pump off issues no pump command.
C25_ManualPumpSequence ==
    /\ ManualPumpStep
        => (/\ Len(PumpCommands) <= 4
            /\ PumpCommands = SubSeq(ManualPumpOrder, 1, Len(PumpCommands))
            /\ (call.faults \cap {"pre", "magnet", "pump"} = {}) => PumpCommands = ManualPumpOrder
            /\ PumpCommands = ManualPumpOrder => ~pump)
    /\ (ConnectedApply /\ ~call.opts.Pump) => (PumpCommands = << >> /\ pump = call.pre.pump)

\* A manual pump step with a frequency and a duration other than the
\* defaults, which ran to its end.
C25_Witness ==
    /\ ManualPumpStep
    /\ call.opts.frequency = 1 /\ call.opts.pump_duration = 5
    /\ PumpCommands = ManualPumpOrder
    /\ ~pump

\* The records the call appended, as the names they were given: 0 for the
\* step's file name, 1 for the step's label.
RecordNames == [ i \in 1..Len(Named(call.cmds, "write_ndjson")) |-> Named(call.cmds, "write_ndjson")[i][2] ]

\* C26: exactly one record is appended per PMT measurement that returned
\* data, named by the step's label when there is one and by the step's file
\* name otherwise (unless the append itself fails); no record is appended
\* when Measure_PMT is off, when the measurement returned no data or when
\* the PMT branch failed before the measurement.
C26_OneRecordPerMeasurement ==
    ConnectedApply
        => (/\ call.records = Len(RecordNames)
            /\ call.records <= 1
            /\ (call.data /\ "pmt" \notin call.faults) => call.records = 1
            /\ call.data => (call.opts.Measure_PMT /\ Len(Named(call.cmds, "measure_dialog")) = 1)
            /\ \A i \in 1..Len(RecordNames) :
                  RecordNames[i] = (IF call.opts.label \in {NoLabel, ""} THEN 0 ELSE 1)
            /\ (~call.opts.Measure_PMT \/ ~call.data \/ Named(call.cmds, "measure_dialog") = << >>)
                  => call.records = 0)

\* A labelled step whose measurement returned data: one record, named by
\* the label.
C26_Witness ==
    /\ ConnectedApply
    /\ call.opts.label = "sample" /\ call.data
    /\ call.records = 1 /\ RecordNames = << 1 >>

\* A scheduled write of the workbook is running.
WriteInFlight == call.name = "threadsafe_write_results"

\* C27: a scheduled write of the results workbook always terminates: its
\* retries are bounded, so a write that is in flight ends, whatever the
\* writes do and whatever the user answers.
C27_ScheduledWriteTerminates == WriteInFlight ~> ~WriteInFlight

\* The connection attempts of the call that reached `break`: each ends with
\* the read of the board's properties.
Successes == Len(Named(call.cmds, "properties"))

\* C28: open_board_connection makes at most retry_count attempts, stops at
\* the first attempt that succeeds, waits the 1-second backoff only after an
\* attempt that failed with a link error, and logs the 'could not be
\* established' warning if and only if no attempt succeeded.
C28_BoundedAttemptsAndWarning ==
    call.name = "on_plugin_enable"
        => (/\ call.attempts \in 1..retry_count
            /\ Successes <= 1
            /\ Successes = 1 => \A i \in FirstAt(call.cmds, "properties")..Len(call.cmds) : call.cmds[i][1] \notin {"SerialProxy", "sleep"}
            /\ Len(SelectSeq(call.cmds, LAMBDA c : c = Cmd("sleep", 1))) = call.link_failures
            /\ Count(call.logs, "warning:could_not_be_established") = (IF Successes = 0 THEN 1 ELSE 0))

\* The stored self-calibration, as the pair of the plugin's two fields.
StoredCalibration == << adc_gain_calibration, adc_offset_calibration >>

\* A PMT step labelled 'background' that had a board handle.
BackgroundStep ==
    /\ ConnectedApply /\ call.opts.Measure_PMT
    /\ call.opts.label # NoLabel /\ Lower(call.opts.label) = "background"

\* C29: the stored calibration is all-or-nothing: the stored gain and offset
\* are both absent or both present, and a background step leaves either the
\* pair it found or the pair of register values it read itself, also when it
\* fails between the read of the gain and the read of the offset.
C29_CalibrationAllOrNothing ==
    /\ (adc_gain_calibration = None) <=> (adc_offset_calibration = None)
    /\ BackgroundStep
         => StoredCalibration \in { << call.pre.adc_gain_calibration, call.pre.adc_offset_calibration >>,
                                    << call.scgc, call.scoc >> }

\* A PMT step with a label other than 'background', run with a board
\* handle after a background step of the session captured its values.
PmtAfterBackground ==
    /\ ConnectedApply /\ call.opts.Measure_PMT
    /\ call.opts.label # NoLabel /\ Lower(call.opts.label) # "background"
    /\ call.pre.session_bg # NoBackground

\* C30: once a background step has captured the calibration in a session,
\* no later non-background PMT step of the session takes the
\* missing-calibration path, whatever the captured gain is, 0 included.
C30_NoMissingCalibrationAfterBackground ==
    PmtAfterBackground => Count(call.logs, "warning:missing_calibration") = 0

\* The call took the feedback branch of the pump: it set the pump to the
\* frequency of the feedback routine.
FeedbackBranchTaken ==
    /\ ConnectedApply /\ call.opts.Pump /\ call.opts.auto
    /\ Cmd("pump_frequency_set", PumpAutoFrequency) \in { call.cmds[i] : i \in 1..Len(call.cmds) }

\* C31: the feedback pump-fill routine never runs with an undefined target:
\* whenever an apply call takes the feedback branch, max_capacitance has
\* been set before the call.
C31_FeedbackTargetDefined ==
    FeedbackBranchTaken => call.pre.max_capacitance # None

\* The last three commands of a call.
LastThree == SubSeq(call.cmds, Len(call.cmds) - 2, Len(call.cmds))

\* C32: every apply call made with a board handle adds exactly one step-log
\* entry, after the two LED writes of the restore, whether the branches
\* succeeded or raised; a call made with no handle adds none.
C32_OneStepLogPerApply ==
    /\ ConnectedApply
         => (/\ call.step_logs = 1
             /\ Len(Named(call.cmds, "add_data")) = 1
             /\ Len(call.cmds) >= 3
             /\ LastThree[1][1] = "led1.on" /\ LastThree[2][1] = "led2.on" /\ LastThree[3][1] = "add_data")
    /\ (call.name \in ApplyCalls /\ call.pre.board = "None")
         => (call.step_logs = 0 /\ Named(call.cmds, "add_data") = << >>)

\* The handlers that apply step options outside on_step_run.
RealtimeCalls == {"on_step_swapped", "on_step_options_changed"}

\* C33: step options are applied outside on_step_run only under real-time
\* gating: on_step_swapped applies them only when real-time mode is on and
\* no protocol is running, on_step_options_changed only when the change is
\* for this plugin, real-time mode is on and the step is the current step;
\* so while a protocol is running a step's options are applied exactly once,
\* by on_step_run, and by no other handler.
C33_AppliedOnceWhileRunning ==
    /\ call.name = "on_step_swapped"
         => call.applies = (IF call.gate.realtime_mode /\ ~call.gate.running THEN 1 ELSE 0)
    /\ call.name = "on_step_options_changed"
         => call.applies = (IF call.gate.plugin /\ call.gate.realtime_mode /\ call.gate.current THEN 1 ELSE 0)
    /\ call.name = "on_step_run" => call.applies = 1
    /\ (call.name \in RealtimeCalls /\ call.gate.running) => call.applies = 0

====
